---------------------------- MODULE Spec2Model ----------------------------
(***************************************************************************)
(* LME copper scraper (src/lme_scraper.py): the text normalizers           *)
(* parse_date, clean_price and clean_stock, the page scraper                *)
(* scrape_data_page, the collector scrape_all_data, the export             *)
(* save_to_csv and the summary main() prints; and the analyzer              *)
(* (src/data_analyzer.py): load_data and the analysis methods.              *)
(*                                                                         *)
(* A Python str is a sequence of one-character strings.  Every Python      *)
(* value the model handles is a record with a field "kind", so that any    *)
(* two values can be compared.                                             *)
(***************************************************************************)
EXTENDS Integers, Sequences, FiniteSets, TLC

VARIABLES
    pc,        \* position of main(): "scrape_years", "scrape_main", "scraped",
               \* "saved", then "done" (returned) or "raised" (exception re-raised)
    year,      \* loop variable of scrape_all_data
    fetched,   \* the pages requested so far, in order (history)
    data,      \* self.data
    crawl,     \* every record the pages contributed, in crawl order (history)
    outcome,   \* what the last page answered and how scrape_data_page ended (history)
    lastPage,  \* what the last scrape_data_page call returned (history)
    csv,       \* the rows save_to_csv wrote, or NoFile
    inputs,    \* the responses of the pages and what each contributed (history)
    summary,   \* main()'s local `summary`: what get_summary_stats returned
    apc,       \* analyzer: "new" (before load_data), "ready", or "raised"
    file,      \* analyzer: the data file as load_data found it
    self_df,   \* analyzer: self.df
    printed,   \* analyzer: the message load_data printed
    call,      \* analyzer: the method called last
    ret,       \* analyzer: what it returned or raised
    fn,        \* normalizer harness: the function called, or "idle"
    arg,       \* normalizer harness: its argument
    src,       \* normalizer harness: how the argument was built
    res        \* normalizer harness: what the call returned or raised

vars == <<pc, year, fetched, data, crawl, outcome, lastPage, csv, inputs,
          summary, apc, file, self_df, printed, call, ret, fn, arg, src, res>>

scraperVars == <<pc, year, fetched, data, crawl, outcome, lastPage, csv, inputs,
                 summary>>

analyzerVars == <<apc, file, self_df, printed, call, ret>>

-----------------------------------------------------------------------------
(* Python values *)

None == [kind |-> "None"]
Str(s) == [kind |-> "str", s |-> s]
PyIntVal(n) == [kind |-> "int", val |-> n]
\* a finite float: sign, integer part, fraction digits without trailing zeros
PyFloatVal(neg, ip, fd) == [kind |-> "float", neg |-> neg, ip |-> ip, fd |-> fd]
PyInf(neg) == [kind |-> "inf", neg |-> neg]
Raised(e) == [kind |-> "raised", exc |-> e]

-----------------------------------------------------------------------------
(* Characters and str methods *)

Digits == <<"0", "1", "2", "3", "4", "5", "6", "7", "8", "9">>
UpperCase == <<"A", "B", "C", "D", "E", "F", "G", "H", "I", "J", "K", "L", "M",
               "N", "O", "P", "Q", "R", "S", "T", "U", "V", "W", "X", "Y", "Z">>
LowerCase == <<"a", "b", "c", "d", "e", "f", "g", "h", "i", "j", "k", "l", "m",
               "n", "o", "p", "q", "r", "s", "t", "u", "v", "w", "x", "y", "z">>
Whitespace == {" ", "\t"}

IsDigit(c) == \E i \in 1..10 : Digits[i] = c
DigitVal(c) == (CHOOSE i \in 1..10 : Digits[i] = c) - 1
IsSpace(c) == c \in Whitespace
\* str.lower() on one character
Lower(c) == IF \E i \in 1..26 : UpperCase[i] = c
            THEN LowerCase[CHOOSE i \in 1..26 : UpperCase[i] = c]
            ELSE c
LowerStr(s) == [i \in 1..Len(s) |-> Lower(s[i])]

AllDigits(s) == \A i \in 1..Len(s) : IsDigit(s[i])
Contains(s, c) == \E i \in 1..Len(s) : s[i] = c
Count(s, c) == Cardinality({i \in 1..Len(s) : s[i] = c})
IndexOf(s, c) == CHOOSE i \in 1..Len(s) : s[i] = c /\ \A j \in 1..(i - 1) : s[j] # c

\* str.strip()
Strip(s) ==
    LET keep == {i \in 1..Len(s) : ~IsSpace(s[i])}
    IN  IF keep = {} THEN <<>>
        ELSE SubSeq(s, CHOOSE i \in keep : \A j \in keep : i <= j,
                       CHOOSE i \in keep : \A j \in keep : j <= i)

\* str.replace(old, new): the non-overlapping occurrences, left to right
RECURSIVE Replace(_, _, _)
Replace(s, old, new) ==
    IF Len(s) < Len(old) \/ Len(old) = 0 THEN s
    ELSE IF SubSeq(s, 1, Len(old)) = old
         THEN new \o Replace(SubSeq(s, Len(old) + 1, Len(s)), old, new)
         ELSE <<Head(s)>> \o Replace(Tail(s), old, new)

\* re.sub(r'[^\d,.-]', '', s)
IsNumericChar(c) == IsDigit(c) \/ c \in {",", ".", "-"}
KeepNumeric(s) == SelectSeq(s, IsNumericChar)

RECURSIVE DigitsToNat(_)
DigitsToNat(s) ==
    IF s = <<>> THEN 0
    ELSE 10 * DigitsToNat(SubSeq(s, 1, Len(s) - 1)) + DigitVal(s[Len(s)])

RECURSIVE NatToDigits(_)
NatToDigits(n) ==
    IF n < 10 THEN <<Digits[n + 1]>>
    ELSE NatToDigits(n \div 10) \o <<Digits[(n % 10) + 1]>>

\* str(n) of an int
IntToStr(n) == IF n < 0 THEN <<"-">> \o NatToDigits(0 - n) ELSE NatToDigits(n)

StripLeadingZeros(s) ==
    LET nz == {i \in 1..Len(s) : s[i] # "0"}
    IN  IF nz = {} THEN <<>>
        ELSE SubSeq(s, CHOOSE i \in nz : \A j \in nz : i <= j, Len(s))

StripTrailingZeros(s) ==
    LET nz == {i \in 1..Len(s) : s[i] # "0"}
    IN  IF nz = {} THEN <<>>
        ELSE SubSeq(s, 1, CHOOSE i \in nz : \A j \in nz : j <= i)

-----------------------------------------------------------------------------
(* float() and int() *)

\* the largest decimal exponent of an IEEE-754 double (DBL_MAX = 1.797...e308)
DBL_MAX_10_EXP == 308

\* float(s) of a str of digits, '.' and '-' (what the callers leave in it):
\* [-] digits [. [digits]] or [-] . digits, else ValueError.  A value beyond
\* DBL_MAX is inf: float() raises nothing on overflow.  The model holds the
\* decimal value exactly: it keeps tokens under 16 significant digits, where
\* distinct decimals are distinct doubles (the one longer token is inf).
\* ExceedsDouble compares the first two of 309 digits with 1.8e308; the
\* integers between DBL_MAX and 1.8e308 are not among the tokens.
IntPart(body) ==
    IF Contains(body, ".") THEN SubSeq(body, 1, IndexOf(body, ".") - 1) ELSE body
FracPart(body) ==
    IF Contains(body, ".") THEN SubSeq(body, IndexOf(body, ".") + 1, Len(body))
    ELSE <<>>
ExceedsDouble(sig) ==
    \/ Len(sig) > DBL_MAX_10_EXP + 1
    \/ Len(sig) = DBL_MAX_10_EXP + 1 /\ DigitsToNat(SubSeq(sig, 1, 2)) >= 18
FloatOfParts(neg, ip, fp) ==
    IF ~(AllDigits(ip) /\ AllDigits(fp) /\ Len(ip) + Len(fp) >= 1)
    THEN Raised("ValueError")
    ELSE IF ExceedsDouble(StripLeadingZeros(ip)) THEN PyInf(neg)
    ELSE PyFloatVal(neg, DigitsToNat(ip), StripTrailingZeros(fp))
FloatOfBody(neg, body) ==
    IF Count(body, ".") > 1 THEN Raised("ValueError")
    ELSE FloatOfParts(neg, IntPart(body), FracPart(body))
PyFloat(s) ==
    IF s # <<>> /\ Head(s) = "-" THEN FloatOfBody(TRUE, Tail(s))
    ELSE FloatOfBody(FALSE, s)

\* int(x) of a float: truncation toward zero; int(inf) raises OverflowError
PyInt(x) ==
    CASE x.kind = "raised" -> x
      [] x.kind = "inf" -> Raised("OverflowError")
      [] OTHER -> PyIntVal(IF x.neg THEN 0 - x.ip ELSE x.ip)

-----------------------------------------------------------------------------
(* clean_price *)

\* `not price_str or price_str.strip() == '-'`
IsPlaceholder(s) == s = <<>> \/ Strip(s) = <<"-">>

\* the separator rewriting of clean_price
PriceSeparators(s) ==
    IF Contains(s, ",") /\ Contains(s, ".")
    THEN Replace(Replace(s, <<".">>, <<>>), <<",">>, <<".">>)
    ELSE IF Contains(s, ",")
         THEN Replace(s, <<",">>, <<".">>)
         ELSE s

\* `except (ValueError, AttributeError)`: log a warning, return None
CleanPriceOnErrorZero(e) == PyFloatVal(FALSE, 0, <<>>)
CleanPriceOnError(e) == None

\* the `try` of clean_price around float(): r is what float() gave
PriceResult(r) ==
    IF r.kind = "raised" /\ r.exc \in {"ValueError", "AttributeError"}
    THEN CleanPriceOnError(r.exc)
    ELSE r

clean_price(price_str) ==
    IF IsPlaceholder(price_str) THEN None
    ELSE PriceResult(PyFloat(PriceSeparators(KeepNumeric(Strip(price_str)))))

-----------------------------------------------------------------------------
(* clean_stock *)

\* `parts = stock_str.split('.')`, `len(parts) == 2 and len(parts[1]) == 3`
IsThousandsDot(s) == Count(s, ".") = 1 /\ Len(s) - IndexOf(s, ".") = 3

\* str(n) of what int() gave, or the exception it raised
StrOfInt(n) == IF n.kind = "raised" THEN n ELSE Str(IntToStr(n.val))

\* one rule shared by both normalizers: the separators rewritten as clean_price does
StockSeparatorsAsPrice(s) == Str(PriceSeparators(s))
\* the separator rewriting of clean_stock; str(int(float(..))) may raise
StockSeparators(s) ==
    IF Contains(s, ".") /\ Contains(s, ",")
    THEN Str(Replace(Replace(s, <<".">>, <<>>), <<",">>, <<>>))
    ELSE IF Contains(s, ".")
         THEN IF IsThousandsDot(s)
              THEN Str(Replace(s, <<".">>, <<>>))
              ELSE StrOfInt(PyInt(PyFloat(s)))
         ELSE IF Contains(s, ",")
              THEN Str(Replace(s, <<",">>, <<>>))
              ELSE Str(s)

\* `return int(float(stock_str))`, unless the rewriting has raised
IntOfStock(t) == IF t.kind = "raised" THEN t ELSE PyInt(PyFloat(t.s))

\* `except (ValueError, AttributeError)`: log a warning, return None
CleanStockOnError(e) == None

\* the `try` of clean_stock: r is what its body gave
StockResult(r) ==
    IF r.kind = "raised" /\ r.exc \in {"ValueError", "AttributeError"}
    THEN CleanStockOnError(r.exc)
    ELSE r

clean_stock(stock_str) ==
    IF IsPlaceholder(stock_str) THEN None
    ELSE StockResult(IntOfStock(StockSeparators(KeepNumeric(Strip(stock_str)))))

-----------------------------------------------------------------------------
(* parse_date *)

\* the dict german_months, in its insertion order (the order the loop visits).
\* The two non-ASCII characters of the fifth key are written "xC3" and "xA4".
german_months == <<
    <<<<"J", "a", "n", "u", "a", "r">>,
      <<"J", "a", "n", "u", "a", "r", "y">>>>,
    <<<<"J", "a", "n">>,
      <<"J", "a", "n", "u", "a", "r", "y">>>>,
    <<<<"F", "e", "b", "r", "u", "a", "r">>,
      <<"F", "e", "b", "r", "u", "a", "r", "y">>>>,
    <<<<"F", "e", "b">>,
      <<"F", "e", "b", "r", "u", "a", "r", "y">>>>,
    <<<<"M", "xC3", "xA4", "r", "z">>,
      <<"M", "a", "r", "c", "h">>>>,
    <<<<"M", "a", "r">>,
      <<"M", "a", "r", "c", "h">>>>,
    <<<<"A", "p", "r", "i", "l">>,
      <<"A", "p", "r", "i", "l">>>>,
    <<<<"A", "p", "r">>,
      <<"A", "p", "r", "i", "l">>>>,
    <<<<"M", "a", "i">>,
      <<"M", "a", "y">>>>,
    <<<<"M", "a", "y">>,
      <<"M", "a", "y">>>>,
    <<<<"J", "u", "n", "i">>,
      <<"J", "u", "n", "e">>>>,
    <<<<"J", "u", "n">>,
      <<"J", "u", "n", "e">>>>,
    <<<<"J", "u", "l", "i">>,
      <<"J", "u", "l", "y">>>>,
    <<<<"J", "u", "l">>,
      <<"J", "u", "l", "y">>>>,
    <<<<"A", "u", "g", "u", "s", "t">>,
      <<"A", "u", "g", "u", "s", "t">>>>,
    <<<<"A", "u", "g">>,
      <<"A", "u", "g", "u", "s", "t">>>>,
    <<<<"S", "e", "p", "t", "e", "m", "b", "e", "r">>,
      <<"S", "e", "p", "t", "e", "m", "b", "e", "r">>>>,
    <<<<"S", "e", "p">>,
      <<"S", "e", "p", "t", "e", "m", "b", "e", "r">>>>,
    <<<<"O", "k", "t", "o", "b", "e", "r">>,
      <<"O", "c", "t", "o", "b", "e", "r">>>>,
    <<<<"O", "c", "t">>,
      <<"O", "c", "t", "o", "b", "e", "r">>>>,
    <<<<"N", "o", "v", "e", "m", "b", "e", "r">>,
      <<"N", "o", "v", "e", "m", "b", "e", "r">>>>,
    <<<<"N", "o", "v">>,
      <<"N", "o", "v", "e", "m", "b", "e", "r">>>>,
    <<<<"D", "e", "z", "e", "m", "b", "e", "r">>,
      <<"D", "e", "c", "e", "m", "b", "e", "r">>>>,
    <<<<"D", "e", "c">>,
      <<"D", "e", "c", "e", "m", "b", "e", "r">>>>
>>

\* `for german, english in german_months.items(): date_str = date_str.replace(..)`
RECURSIVE ReplaceMonthsFrom(_, _)
ReplaceMonthsFrom(s, k) ==
    IF k > Len(german_months) THEN s
    ELSE ReplaceMonthsFrom(Replace(s, german_months[k][1], german_months[k][2]), k + 1)
ReplaceMonths(s) == ReplaceMonthsFrom(s, 1)

\* the month names strptime knows for %B (C locale), lower case, by month number
FullMonthNames == <<
    <<"j", "a", "n", "u", "a", "r", "y">>,
    <<"f", "e", "b", "r", "u", "a", "r", "y">>,
    <<"m", "a", "r", "c", "h">>,
    <<"a", "p", "r", "i", "l">>,
    <<"m", "a", "y">>,
    <<"j", "u", "n", "e">>,
    <<"j", "u", "l", "y">>,
    <<"a", "u", "g", "u", "s", "t">>,
    <<"s", "e", "p", "t", "e", "m", "b", "e", "r">>,
    <<"o", "c", "t", "o", "b", "e", "r">>,
    <<"n", "o", "v", "e", "m", "b", "e", "r">>,
    <<"d", "e", "c", "e", "m", "b", "e", "r">>
>>
\* and for %b: their first three letters
AbbrMonthNames == [m \in 1..12 |-> SubSeq(FullMonthNames[m], 1, 3)]

\* the regex strptime builds for %d: 3[0-1]|[1-2]\d|0[1-9]|[1-9]| [1-9]
MatchesDayRe(s) ==
    \/ /\ Len(s) = 2
       /\ \/ s[1] = "3" /\ s[2] \in {"0", "1"}
          \/ s[1] \in {"1", "2"} /\ IsDigit(s[2])
          \/ s[1] = "0" /\ IsDigit(s[2]) /\ s[2] # "0"
          \/ s[1] = " " /\ IsDigit(s[2]) /\ s[2] # "0"
    \/ Len(s) = 1 /\ IsDigit(s[1]) /\ s[1] # "0"

\* how many characters at the head of s satisfy / do not satisfy \s
LeadingSpaces(s) ==
    CHOOSE n \in 0..Len(s) :
        /\ \A i \in 1..n : IsSpace(s[i])
        /\ n = Len(s) \/ ~IsSpace(s[n + 1])
LeadingNonSpaces(s) ==
    CHOOSE n \in 0..Len(s) :
        /\ \A i \in 1..n : ~IsSpace(s[i])
        /\ n = Len(s) \/ IsSpace(s[n + 1])

IsLeap(y) == y % 4 = 0 /\ (y % 100 # 0 \/ y % 400 = 0)
DaysInMonth(y, m) ==
    IF m = 2 THEN (IF IsLeap(y) THEN 29 ELSE 28)
    ELSE IF m \in {4, 6, 9, 11} THEN 30 ELSE 31

\* datetime.strptime(s, '%d. %B %Y') with names = FullMonthNames, and
\* datetime.strptime(s, '%d. %b %Y') with names = AbbrMonthNames: the whole of s
\* must match  day \. \s+ month \s+ \d\d\d\d  (month names without regard to
\* case), and the date must exist; else ValueError.  The steps, left to right:
MakeDatetime(y, m, d) ==
    IF y >= 1 /\ d <= DaysInMonth(y, m)
    THEN [kind |-> "datetime", y |-> y, m |-> m, d |-> d]
    ELSE Raised("ValueError")
MatchYear(dpart, m, ypart) ==
    IF Len(ypart) = 4 /\ AllDigits(ypart)
    THEN MakeDatetime(DigitsToNat(ypart), m, DigitsToNat(Strip(dpart)))
    ELSE Raised("ValueError")
MatchMonth(dpart, name, rest, names) ==
    IF (\E m \in 1..12 : names[m] = name) /\ LeadingSpaces(rest) >= 1
    THEN MatchYear(dpart, CHOOSE m \in 1..12 : names[m] = name,
                   SubSeq(rest, LeadingSpaces(rest) + 1, Len(rest)))
    ELSE Raised("ValueError")
MatchWord(dpart, rest, names) ==
    MatchMonth(dpart, LowerStr(SubSeq(rest, 1, LeadingNonSpaces(rest))),
               SubSeq(rest, LeadingNonSpaces(rest) + 1, Len(rest)), names)
MatchDay(dpart, rest, names) ==
    IF MatchesDayRe(dpart) /\ LeadingSpaces(rest) >= 1
    THEN MatchWord(dpart, SubSeq(rest, LeadingSpaces(rest) + 1, Len(rest)), names)
    ELSE Raised("ValueError")
StrpTime(s, names) ==
    IF Contains(s, ".")
    THEN MatchDay(SubSeq(s, 1, IndexOf(s, ".") - 1),
                  SubSeq(s, IndexOf(s, ".") + 1, Len(s)), names)
    ELSE Raised("ValueError")

Pad2(n) == IF n < 10 THEN <<"0">> \o NatToDigits(n) ELSE NatToDigits(n)

\* parsed_date.strftime('%Y-%m-%d'); glibc's %Y does not pad the year
StrFTime(dt) == NatToDigits(dt.y) \o <<"-">> \o Pad2(dt.m) \o <<"-">> \o Pad2(dt.d)

\* no format matched: log a warning, `return None`
ParseDateNoMatchEcho(s) == Str(s)
ParseDateNoMatch(s) == None

\* `for fmt in ['%d. %B %Y', '%d. %b %Y']`: the first format that parses
FirstFormat(a, b, s) ==
    IF a.kind = "datetime" THEN Str(StrFTime(a))
    ELSE IF b.kind = "datetime" THEN Str(StrFTime(b))
    ELSE ParseDateNoMatch(s)
TryFormats(s) == FirstFormat(StrpTime(s, FullMonthNames), StrpTime(s, AbbrMonthNames), s)

\* The outer `except Exception` returns None too; with a str argument nothing
\* inside the try raises anything but the ValueError the inner try catches.
parse_date(date_str) == TryFormats(ReplaceMonths(Strip(date_str)))

-----------------------------------------------------------------------------
(* The pages the site can answer with *)

\* Bounds
NumYears == 2     \* the years from start_year to the current year
MaxRows == 1      \* the data rows of one page's table
MaxTokLen == 4    \* the length of the numeric tokens enumerated
MaxDay == 32      \* the day numbers enumerated: 0..MaxDay
MaxFileRows == 2  \* the rows of the data file the analyzer loads

\* a cell whose digits exceed the range of a double
HugeToken == [i \in 1..(DBL_MAX_10_EXP + 2) |-> "9"]

\* The table rows (<tr>) a page may hold, by name: the text of their cells.
RowCells ==
       "jan13" :> <<<<"1", "3", ".", " ", "J", "a", "n", " ", "2", "0", "2", "5">>,
                  <<"9", ",", "6", "0", "0", ".", "0", "0">>,
                  <<"9", ",", "6", "5", "0", ".", "0", "0">>,
                  <<"1", "5", "0", ",", "0", "0", "0">>>>
    @@ "jan13b" :> <<<<"1", "3", ".", " ", "J", "a", "n", " ", "2", "0", "2", "5">>,
                   <<"9", "7", "0", "0", ",", "5">>,
                   <<>>,
                   <<>>>>
    @@ "feb14" :> <<<<"1", "4", ".", " ", "F", "e", "b", " ", "2", "0", "2", "4">>,
                  <<"n", "/", "a">>,
                  <<"8", ".", "5", "0", "0", ",", "2", "5">>,
                  <<"1", ".", "2", "3", "4">>>>
    @@ "dec02" :> <<<<" ", "2", ".", " ", "D", "e", "c", " ", "2", "0", "2", "3">>,
                  <<"8", ",", "4", "0", "0", ".", "5">>,
                  <<"-">>,
                  <<"9", "8", ".", "5">>>>
    @@ "rowA" :> <<<<"1", "3", ".", " ", "J", "a", "n", "u", "a", "r", " ", "2", "0", "2", "5">>,
                 <<"9", ",", "6", "0", "0", ".", "0", "0">>,
                 <<"9", ",", "6", "5", "0", ".", "0", "0">>,
                 <<"1", "5", "0", ",", "0", "0", "0">>>>
    @@ "rowB" :> <<<<"1", "3", ".", " ", "J", "a", "n", "u", "a", "r", "y", " ", "2", "0", "2", "5">>,
                 <<"9", ",", "7", "0", "0", ".", "0", "0">>,
                 <<"9", ",", "7", "5", "0", ".", "0", "0">>,
                 <<"1", "5", "1", ",", "0", "0", "0">>>>
    @@ "short" :> <<<<"1", "4", ".", " ", "F", "e", "b", " ", "2", "0", "2", "4">>,
                  <<"1">>,
                  <<"2">>>>
    @@ "huge" :> <<<<"3", ".", " ", "M", "a", "r", " ", "2", "0", "2", "5">>, <<"1">>, <<"2">>, HugeToken>>
    @@ "header" :> <<<<"d", "a", "t", "e">>, <<"c", "a", "s", "h">>, <<"3", "m">>, <<"s", "t", "o", "c", "k">>>>

DataRowNames == {"jan13", "jan13b", "feb14", "dec02", "rowA", "rowB", "short", "huge"}

\* the <tr> lists of a table: none at all, or a header row and up to
\* MaxRows data rows
TableBodies ==
    {<<>>} \cup
    UNION {{<<"header">> \o s : s \in [1..n -> DataRowNames]} : n \in 0..MaxRows}

\* What session.get(url, timeout=10) does: it raises ConnectionError or
\* Timeout, or it returns a response with a status (200, or an error status
\* that raise_for_status() turns into HTTPError) and a body, which holds a
\* table or none.
Responses ==
    {[kind |-> k, table |-> FALSE, trs |-> <<>>] :
        k \in {"ConnectionError", "Timeout", "200", "HTTPError"}}
    \cup {[kind |-> k, table |-> TRUE, trs |-> b] :
        k \in {"200", "HTTPError"}, b \in TableBodies}

-----------------------------------------------------------------------------
(* scrape_data_page *)

\* cell.get_text(strip=True)
GetText(cell) == Strip(cell)

\* `if date:` and the append: the record the row adds to page_data (NoRecord
\* when it adds none), or the exception a normalizer has let escape
NoRecord == [kind |-> "norecord"]
RowRecord(date, cash_price, three_month_price, stock) ==
    IF \E v \in {date, cash_price, three_month_price, stock} : v.kind = "raised"
    THEN CHOOSE v \in {date, cash_price, three_month_price, stock} : v.kind = "raised"
    ELSE IF date # None
         THEN [kind |-> "record",
               date |-> date.s,
               lme_copper_cash_settlement |-> cash_price,
               lme_copper_3_month |-> three_month_price,
               lme_copper_stock |-> stock]
         ELSE NoRecord

\* the body of `for row in rows`
ParseRow(cells) ==
    IF Len(cells) >= 4
    THEN RowRecord(parse_date(GetText(cells[1])),
                   clean_price(GetText(cells[2])),
                   clean_price(GetText(cells[3])),
                   clean_stock(GetText(cells[4])))
    ELSE NoRecord

\* ParseRow of each named row, computed once
ParsedRow == [r \in DOMAIN RowCells |-> ParseRow(RowCells[r])]

\* the loop over rows: page_data so far, and whether a row raised
RECURSIVE ScrapeRows(_, _)
AddRow(r, rest, page_data) ==
    IF r.kind = "raised" THEN [raised |-> TRUE, page_data |-> page_data]
    ELSE ScrapeRows(rest, IF r.kind = "record" THEN Append(page_data, r)
                          ELSE page_data)
ScrapeRows(rows, page_data) ==
    IF rows = <<>> THEN [raised |-> FALSE, page_data |-> page_data]
    ELSE AddRow(ParsedRow[Head(rows)], Tail(rows), page_data)

\* response.raise_for_status()
RaiseForStatusNever(resp) == FALSE
RaiseForStatus(resp) == resp.kind = "HTTPError"

\* `except Exception`: log the error, `return []`
ScrapeOnError(page_data) == <<>>

\* how the loop over the rows ends: `return page_data`, or the handler
EndOfRows(got) ==
    IF got.raised
    THEN [outcome |-> "error", page |-> ScrapeOnError(got.page_data)]
    ELSE [outcome |-> "ok", page |-> got.page_data]

\* scrape_data_page(url), given what the site answers: how the call ended
\* ("ok", "no_table" or "error") and the list it returned
scrape_data_page(resp) ==
    IF resp.kind \in {"ConnectionError", "Timeout"} \/ RaiseForStatus(resp)
    THEN [outcome |-> "error", page |-> ScrapeOnError(<<>>)]
    ELSE IF ~resp.table
    THEN [outcome |-> "no_table", page |-> <<>>]
    ELSE EndOfRows(ScrapeRows(SubSeq(resp.trs, 2, Len(resp.trs)), <<>>))

-----------------------------------------------------------------------------
(* scrape_all_data *)

\* `start_year=2010`
StartYear == 2010
\* datetime.now().year
CurrentYear == StartYear + NumYears - 1

YearPage(y) == [page |-> "year", year |-> y]
MainPage == [page |-> "main", year |-> 0]
\* the pages in the order scrape_all_data requests them
AllPages == [i \in 1..NumYears |-> YearPage(CurrentYear - i + 1)] \o <<MainPage>>

\* "Remove duplicates based on date": the first record of each date is kept
RECURSIVE DedupKeepLast(_)
DedupKeepLast(records) ==
    IF records = <<>> THEN <<>>
    ELSE IF \E i \in 2..Len(records) : records[i].date = Head(records).date
         THEN DedupKeepLast(Tail(records))
         ELSE <<Head(records)>> \o DedupKeepLast(Tail(records))

RECURSIVE UniqueFrom(_, _, _)
UniqueFrom(records, seen_dates, unique_data) ==
    IF records = <<>> THEN unique_data
    ELSE IF Head(records).date \notin seen_dates
         THEN UniqueFrom(Tail(records), seen_dates \cup {Head(records).date},
                         Append(unique_data, Head(records)))
         ELSE UniqueFrom(Tail(records), seen_dates, unique_data)
RemoveDuplicates(records) == UniqueFrom(records, {}, <<>>)

-----------------------------------------------------------------------------
(* save_to_csv *)

NoFile == [kind |-> "nofile", rows |-> <<>>]

\* pd.to_datetime of a 'YYYY-MM-DD' string: the timestamp, as <<y, m, d>>
ToDatetime(s) ==
    LET d1 == IndexOf(s, "-")
        rest == SubSeq(s, d1 + 1, Len(s))
        d2 == IndexOf(rest, "-")
    IN  <<DigitsToNat(SubSeq(s, 1, d1 - 1)),
          DigitsToNat(SubSeq(rest, 1, d2 - 1)),
          DigitsToNat(SubSeq(rest, d2 + 1, Len(rest)))>>

\* timestamp order
Before(a, b) ==
    \/ a[1] < b[1]
    \/ a[1] = b[1] /\ a[2] < b[2]
    \/ a[1] = b[1] /\ a[2] = b[2] /\ a[3] < b[3]

\* df['date'].dt.strftime('%Y-%m-%d')
FormatTimestamp(t) == NatToDigits(t[1]) \o <<"-">> \o Pad2(t[2]) \o <<"-">> \o Pad2(t[3])

\* df.sort_values('date'): ascending.  The dates of self.data are distinct when
\* save_to_csv runs (scrape_all_data has removed the duplicates), so the order
\* pandas gives to equal keys plays no part.
RECURSIVE InsertByDate(_, _)
InsertByDate(sorted, rec) ==
    IF sorted = <<>> THEN <<rec>>
    ELSE IF Before(rec.date, Head(sorted).date)
         THEN <<rec>> \o sorted
         ELSE <<Head(sorted)>> \o InsertByDate(Tail(sorted), rec)
RECURSIVE SortFrom(_, _)
SortFrom(df, sorted) ==
    IF df = <<>> THEN sorted
    ELSE SortFrom(Tail(df), InsertByDate(sorted, Head(df)))
SortValuesUnsorted(df) == df
SortValues(df) == SortFrom(df, <<>>)

\* the rows of the file: the records of self.data with the date column
\* converted, sorted, and formatted back
ConvertDates(records) ==
    [i \in 1..Len(records) |->
        [records[i] EXCEPT !.date = ToDatetime(records[i].date)]]
FormatDates(df) ==
    [i \in 1..Len(df) |-> [df[i] EXCEPT !.date = FormatTimestamp(df[i].date)]]
CsvRows(records) == FormatDates(SortValues(ConvertDates(records)))

-----------------------------------------------------------------------------
(* get_summary_stats and the summary printout of main() *)

\* main()'s local `summary` before its assignment
Unset == [kind |-> "unset"]

\* the str "No data available"
NoDataAvailable ==
    <<"N", "o", " ", "d", "a", "t", "a", " ", "a", "v", "a", "i", "l", "a", "b", "l", "e">>

\* df[column].isna().sum()
MissingCount(df, column) == Cardinality({i \in 1..Len(df) : df[i][column] = None})

\* f"{df['date'].min().strftime('%Y-%m-%d')} to {df['date'].max().strftime('%Y-%m-%d')}";
\* sorted is df in ascending date order, so its ends are the minimum and the maximum
DateRange(sorted) ==
    FormatTimestamp(sorted[1].date) \o <<" ", "t", "o", " ">>
        \o FormatTimestamp(sorted[Len(sorted)].date)

\* the dict built from the DataFrame df
SummaryDict(df) ==
    [kind |-> "dict",
     total_records |-> Len(df),
     date_range |-> DateRange(SortValues(df)),
     missing_cash_prices |-> MissingCount(df, "lme_copper_cash_settlement"),
     missing_3month_prices |-> MissingCount(df, "lme_copper_3_month"),
     missing_stock_data |-> MissingCount(df, "lme_copper_stock")]

get_summary_stats(records) ==
    IF records = <<>> THEN Str(NoDataAvailable)
    ELSE SummaryDict(ConvertDates(records))

\* `summary.items()`: a dict has the method, a str has not
Items(s) == IF s.kind = "dict" THEN s ELSE Raised("AttributeError")

\* `except Exception as e: logging.error(...); raise`
MainOnError(e) == "raised"

-----------------------------------------------------------------------------
(* The run of main(): scrape_all_data, save_to_csv, then the summary *)

Init ==
    /\ pc = "scrape_years"
    /\ year = CurrentYear
    /\ fetched = <<>>
    /\ data = <<>>
    /\ crawl = <<>>
    /\ outcome = [resp |-> "none", ended |-> "none"]
    /\ lastPage = <<>>
    /\ csv = NoFile
    /\ inputs = <<>>
    /\ summary = Unset
    /\ apc = "new"
    /\ file = Unset
    /\ self_df = None
    /\ printed = "nothing"
    /\ call = "__init__"
    /\ ret = None
    /\ fn = "idle"
    /\ arg = <<>>
    /\ src = [kind |-> "none"]
    /\ res = None

\* one turn of `for year in range(current_year, start_year - 1, -1)`
ScrapeYearPage(resp, log) ==
    /\ pc = "scrape_years"
    /\ \E r \in {scrape_data_page(resp)} :
           /\ data' = data \o r.page
           /\ crawl' = crawl \o r.page
           /\ outcome' = [resp |-> resp.kind, ended |-> r.outcome]
           /\ lastPage' = r.page
           /\ inputs' = IF log THEN Append(inputs, [resp |-> resp, page |-> r.page])
                        ELSE inputs
    /\ fetched' = Append(fetched, YearPage(year))
    /\ IF year - 1 >= StartYear
       THEN year' = year - 1 /\ pc' = pc
       ELSE year' = year /\ pc' = "scrape_main"
    /\ UNCHANGED <<csv, summary, fn, arg, src, res>>
    /\ UNCHANGED analyzerVars

\* the rest of scrape_all_data: the main page, then the removal of duplicates
ScrapeMainPage(resp, log) ==
    /\ pc = "scrape_main"
    /\ \E r \in {scrape_data_page(resp)} :
           /\ data' = RemoveDuplicates(data \o r.page)
           /\ crawl' = crawl \o r.page
           /\ outcome' = [resp |-> resp.kind, ended |-> r.outcome]
           /\ lastPage' = r.page
           /\ inputs' = IF log THEN Append(inputs, [resp |-> resp, page |-> r.page])
                        ELSE inputs
    /\ fetched' = Append(fetched, MainPage)
    /\ pc' = "scraped"
    /\ UNCHANGED <<year, csv, summary, fn, arg, src, res>>
    /\ UNCHANGED analyzerVars

SaveToCsv ==
    /\ pc = "scraped"
    /\ csv' = IF data = <<>> THEN csv
              ELSE [kind |-> "file", rows |-> CsvRows(data)]
    /\ pc' = "saved"
    /\ UNCHANGED <<year, fetched, data, crawl, outcome, lastPage, inputs,
                   summary, fn, arg, src, res>>
    /\ UNCHANGED analyzerVars

\* the rest of main(): `summary = scraper.get_summary_stats()`, then the loop
\* over summary.items() and the prints.  An exception is logged and re-raised.
PrintSummary ==
    /\ pc = "saved"
    /\ \E s \in {get_summary_stats(data)} :
           /\ summary' = s
           /\ pc' = IF Items(s).kind = "raised" THEN MainOnError(Items(s)) ELSE "done"
    /\ UNCHANGED <<year, fetched, data, crawl, outcome, lastPage, csv, inputs,
                   fn, arg, src, res>>
    /\ UNCHANGED analyzerVars

ScrapeYear == \E resp \in Responses : ScrapeYearPage(resp, FALSE)
ScrapeMain == \E resp \in Responses : ScrapeMainPage(resp, FALSE)

Next == ScrapeYear \/ ScrapeMain \/ SaveToCsv \/ PrintSummary

Spec == Init /\ [][Next]_vars

\* the same run, with every response and what it contributed recorded
ScrapeYearLogged == \E resp \in Responses : ScrapeYearPage(resp, TRUE)
ScrapeMainLogged == \E resp \in Responses : ScrapeMainPage(resp, TRUE)

NextLogged == ScrapeYearLogged \/ ScrapeMainLogged \/ SaveToCsv \/ PrintSummary

SpecLogged == Init /\ [][NextLogged]_vars

-----------------------------------------------------------------------------
(* The normalizers alone: one call of parse_date, clean_price or clean_stock *)
(* on a token, and a second parse_date on the first one's result            *)

NumAlphabet == {"1", "0", ",", ".", "-", " ", "x"}
NamedTokens == {
    HugeToken,
    <<"9", ",", "6", "3", "7", ".", "5", "0">>,
    <<"1", ".", "2", "3", "4", ",", "5", "6">>,
    <<"1", ",", "2", "3", "4", ".", "5", "6">>,
    <<"9", ",", "6", "0", "0", ".", "0", "0">>,
    <<"1", "0", "8", ",", "7", "2", "5">>,
    <<"1", ".", "2", "3", "4", ".", "5", "6", "7", ",", "0", "0">>,
    <<"1", ",", "2", "3", "4", ",", "5", "6", "7", ".", "8", "9">>,
    <<"\t", "-", "\t">>,
    <<"\t">>,
    <<"$", "9", ",", "6", "0", "0", ".", "0", "0">>,
    <<"n", "/", "a">>}
NumTokens == NamedTokens \cup UNION {[1..n -> NumAlphabet] : n \in 0..MaxTokLen}

\* the day, month and year texts the date tokens are built from
DayTexts ==
    {NatToDigits(d) : d \in 0..MaxDay} \cup {Pad2(d) : d \in 0..9}
    \cup {<<"x", "x">>, <<"0", "1", "3">>, <<>>}
MonthKeys == {german_months[k][1] : k \in 1..Len(german_months)}
MonthTexts == MonthKeys \cup {
    <<"J", "a", "n", "u", "a", "r", "y">>,
    <<"M", "a", "r", "c", "h">>,
    <<"d", "e", "c", "e", "m", "b", "e", "r">>,
    <<"F", "o", "o">>}
YearNums == {1900, 2000, 2024, 2025}

\* "D. Month YYYY"
DateText(day, mon, y) == day \o <<".", " ">> \o mon \o <<" ">> \o NatToDigits(y)
\* "YYYY-MM-DD"
IsoText(y, m, d) == NatToDigits(y) \o <<"-">> \o Pad2(m) \o <<"-">> \o Pad2(d)

Called(f, token, how, result) ==
    /\ fn' = f
    /\ arg' = token
    /\ src' = how
    /\ res' = result
    /\ UNCHANGED <<scraperVars, analyzerVars>>

CallParseDate ==
    /\ fn = "idle"
    /\ \E day \in DayTexts, mon \in MonthTexts, y \in YearNums :
          Called("parse_date", DateText(day, mon, y),
                 [kind |-> "dmy", day |-> day, mon |-> mon, y |-> y],
                 parse_date(DateText(day, mon, y)))

CallParseDateIso ==
    /\ fn = "idle"
    /\ \E y \in YearNums, m \in 1..12, d \in {1, 13, 28} :
          Called("parse_date", IsoText(y, m, d), [kind |-> "iso"],
                 parse_date(IsoText(y, m, d)))

\* parse_date again, on the string the first call returned
ReparseDate ==
    /\ fn = "parse_date"
    /\ src.kind = "dmy"
    /\ res.kind = "str"
    /\ Called("parse_date", res.s, [kind |-> "reparse"], parse_date(res.s))

CallCleanPrice ==
    /\ fn = "idle"
    /\ \E t \in NumTokens : Called("clean_price", t, [kind |-> "token"], clean_price(t))

CallCleanStock ==
    /\ fn = "idle"
    /\ \E t \in NumTokens : Called("clean_stock", t, [kind |-> "token"], clean_stock(t))

NextNorm ==
    CallParseDate \/ CallParseDateIso \/ ReparseDate \/ CallCleanPrice \/ CallCleanStock

SpecNorm == Init /\ [][NextNorm]_vars

-----------------------------------------------------------------------------
(* LMEDataAnalyzer (src/data_analyzer.py): load_data and the analysis        *)
(* methods.  A DataFrame is the kind of its index, the names of its columns  *)
(* and its rows as read from the file.  The methods are followed as far as   *)
(* the index and the columns they touch: the values they compute and the     *)
(* charts they draw are not part of the model.                               *)

PriceColumns == {"lme_copper_cash_settlement", "lme_copper_3_month"}
NumericColumns == PriceColumns \cup {"lme_copper_stock"}
CsvColumns == {"date"} \cup NumericColumns

\* the cells of a row under the columns the file has
Restrict(row, cols) == [c \in cols |-> row[c]]

\* rows save_to_csv has written, and one whose date cell is no date (and none
\* of the texts read_csv takes for a missing value)
NotADate == <<"x", "x">>
FileRecords ==
    {ParsedRow[r] : r \in {"jan13", "feb14", "dec02"}}
    \cup {[ParsedRow["jan13"] EXCEPT !.date = NotADate]}
FileTables == UNION {[1..n -> FileRecords] : n \in 1..MaxFileRows}

\* the data file at analysis time: absent, of zero bytes, not readable by
\* this user, or a table under some of the columns
Files ==
    {[kind |-> "missing"], [kind |-> "empty"], [kind |-> "denied"]}
    \cup {[kind |-> "csv", columns |-> cols,
           rows |-> [i \in 1..Len(tb) |-> Restrict(tb[i], cols)]] :
             cols \in (SUBSET CsvColumns) \ {{}}, tb \in FileTables}

DataFrame(index, columns, rows) ==
    [kind |-> "DataFrame", index |-> index, columns |-> columns, rows |-> rows]

\* pd.read_csv(self.csv_file)
read_csv(f) ==
    CASE f.kind = "missing" -> Raised("FileNotFoundError")
      [] f.kind = "empty" -> Raised("EmptyDataError")
      [] f.kind = "denied" -> Raised("PermissionError")
      [] OTHER -> DataFrame("RangeIndex", f.columns, f.rows)

\* what pd.to_datetime takes for a date, among the cells of the model
IsDateCell(s) ==
    /\ Len(s) = 10
    /\ s[5] = "-" /\ s[8] = "-"
    /\ \A i \in {1, 2, 3, 4, 6, 7, 9, 10} : IsDigit(s[i])

\* `self.df['date'] = pd.to_datetime(self.df['date'])`
ToDatetimeColumn(frame) ==
    IF "date" \notin frame.columns THEN Raised("KeyError")
    ELSE IF \E i \in 1..Len(frame.rows) : ~IsDateCell(frame.rows[i].date)
         THEN Raised("ValueError")
         ELSE [frame EXCEPT !.rows = ConvertDates(@)]

\* `self.df.set_index('date', inplace=True)`
SetIndex(frame) ==
    [frame EXCEPT !.index = "DatetimeIndex", !.columns = @ \ {"date"}]

\* `self.df.sort_index(inplace=True)`
SortIndex(frame) == [frame EXCEPT !.rows = SortValues(@)]

\* the lines of load_data after read_csv has assigned self.df = raw: conv is
\* what the date conversion gave.  `except Exception` prints and returns, and
\* self.df stays as it was assigned.
PrepareFrame(raw, conv) ==
    IF conv.kind = "raised"
    THEN [df |-> raw, printed |-> "Error loading data"]
    ELSE [df |-> SortIndex(SetIndex(conv)), printed |-> "Loaded"]

\* load_data when read_csv has raised e: self.df is still None
LoadOnError(e) ==
    IF e.exc = "FileNotFoundError"
    THEN [df |-> None, printed |-> "not found"]
    ELSE [df |-> None, printed |-> "Error loading data"]

\* self.df and the message printed when load_data returns; r is read_csv's result
LoadResult(r) ==
    IF r.kind = "raised" THEN LoadOnError(r)
    ELSE PrepareFrame(r, ToDatetimeColumn(r))

load_data(f) == LoadResult(read_csv(f))

\* self.df[c] for some c of cols raises KeyError
Missing(frame, cols) == ~(cols \subseteq frame.columns)

\* LMEDataAnalyzer.get_summary_stats: index.min().strftime needs timestamps
\* (the minimum of a RangeIndex is an int), then the three columns are read
AnalyzerSummaryStats(frame) ==
    IF frame = None THEN None
    ELSE IF frame.index # "DatetimeIndex" THEN Raised("AttributeError")
    ELSE IF Missing(frame, NumericColumns) THEN Raised("KeyError")
    ELSE [kind |-> "dict",
          total_records |-> Len(frame.rows),
          date_range |-> DateRange(frame.rows)]

\* the plot methods return nothing after plt.show()
plot_price_trends(frame) ==
    IF frame = None THEN None
    ELSE IF Missing(frame, NumericColumns) THEN Raised("KeyError")
    ELSE None

plot_price_distribution(frame) ==
    IF frame = None THEN None
    ELSE IF Missing(frame, PriceColumns) THEN Raised("KeyError")
    ELSE None

VolatilityColumns == {"cash_volatility", "3month_volatility"}

\* the columns calculate_volatility has assigned when it returns or raises
AddedByVolatility(frame) ==
    IF "lme_copper_cash_settlement" \notin frame.columns THEN {}
    ELSE IF "lme_copper_3_month" \notin frame.columns THEN {"cash_returns"}
    ELSE {"cash_returns", "3month_returns"} \cup VolatilityColumns

\* self.df after calculate_volatility
AfterVolatility(frame) ==
    IF frame = None THEN None
    ELSE [frame EXCEPT !.columns = @ \cup AddedByVolatility(frame)]

\* `return self.df[['cash_volatility', '3month_volatility']]`
calculate_volatility(frame) ==
    IF frame = None THEN None
    ELSE IF Missing(frame, PriceColumns) THEN Raised("KeyError")
    ELSE [kind |-> "DataFrame", index |-> frame.index,
          columns |-> VolatilityColumns, length |-> Len(frame.rows)]

\* plot_volatility: volatility_data is what calculate_volatility gave
PlotVolatilityData(volatility_data) ==
    IF volatility_data.kind = "raised" THEN volatility_data ELSE None
plot_volatility(frame) == PlotVolatilityData(calculate_volatility(frame))

\* get_yearly_summary: index.year needs timestamps, then the columns are
\* aggregated by year
get_yearly_summary(frame) ==
    IF frame = None THEN None
    ELSE IF frame.index # "DatetimeIndex" THEN Raised("AttributeError")
    ELSE IF Missing(frame, NumericColumns) THEN Raised("KeyError")
    ELSE [kind |-> "DataFrame", index |-> "year",
          years |-> {frame.rows[i].date[1] : i \in 1..Len(frame.rows)}]

plot_correlation_matrix(frame) ==
    IF frame = None THEN None
    ELSE IF Missing(frame, NumericColumns) THEN Raised("KeyError")
    ELSE None

\* the body of export_analysis_report under `with open(...)`
WriteReport(stats, yearly_summary) ==
    IF stats.kind = "raised" THEN stats
    ELSE IF yearly_summary.kind = "raised" THEN yearly_summary
    ELSE None
export_analysis_report(frame) ==
    IF frame = None THEN None
    ELSE WriteReport(AnalyzerSummaryStats(frame), get_yearly_summary(frame))

\* `self.load_data()` of __init__, on the file it finds
LoadData ==
    /\ apc = "new"
    /\ \E f \in Files : \E r \in {load_data(f)} :
           /\ file' = f
           /\ self_df' = r.df
           /\ printed' = r.printed
    /\ apc' = "ready"
    /\ call' = "load_data"
    /\ ret' = None
    /\ UNCHANGED <<scraperVars, fn, arg, src, res>>

\* one call of an analysis method: what it gave, and self.df after it
AnalyzerCall(name, result, frame) ==
    /\ apc = "ready"
    /\ call' = name
    /\ ret' = result
    /\ self_df' = frame
    /\ apc' = IF result.kind = "raised" THEN "raised" ELSE "ready"
    /\ UNCHANGED <<file, printed, scraperVars, fn, arg, src, res>>

CallGetSummaryStats ==
    \E r \in {AnalyzerSummaryStats(self_df)} :
        AnalyzerCall("get_summary_stats", r, self_df)
CallPlotPriceTrends ==
    \E r \in {plot_price_trends(self_df)} :
        AnalyzerCall("plot_price_trends", r, self_df)
CallPlotPriceDistribution ==
    \E r \in {plot_price_distribution(self_df)} :
        AnalyzerCall("plot_price_distribution", r, self_df)
CallCalculateVolatility ==
    \E r \in {calculate_volatility(self_df)} :
        AnalyzerCall("calculate_volatility", r, AfterVolatility(self_df))
CallPlotVolatility ==
    \E r \in {plot_volatility(self_df)} :
        AnalyzerCall("plot_volatility", r, AfterVolatility(self_df))
CallGetYearlySummary ==
    \E r \in {get_yearly_summary(self_df)} :
        AnalyzerCall("get_yearly_summary", r, self_df)
CallPlotCorrelationMatrix ==
    \E r \in {plot_correlation_matrix(self_df)} :
        AnalyzerCall("plot_correlation_matrix", r, self_df)
CallExportAnalysisReport ==
    \E r \in {export_analysis_report(self_df)} :
        AnalyzerCall("export_analysis_report", r, self_df)

NextAnalyzer ==
    \/ LoadData
    \/ CallGetSummaryStats
    \/ CallPlotPriceTrends
    \/ CallPlotPriceDistribution
    \/ CallCalculateVolatility
    \/ CallPlotVolatility
    \/ CallGetYearlySummary
    \/ CallPlotCorrelationMatrix
    \/ CallExportAnalysisReport

SpecAnalyzer == Init /\ [][NextAnalyzer]_vars

-----------------------------------------------------------------------------
(* Properties *)

Scraped == pc \in {"scraped", "saved", "done", "raised"}

\* C1: after scrape_all_data, self.data holds exactly one record per date the
\* pages returned, and that record is the first one with that date in crawl
\* order, whatever the later records with the same date carry.
C1_FirstRecordPerDateKept ==
    Scraped =>
        /\ \A i, j \in 1..Len(data) : data[i].date = data[j].date => i = j
        /\ \A k \in 1..Len(crawl) : \E i \in 1..Len(data) : data[i].date = crawl[k].date
        /\ \A i \in 1..Len(data) :
              \E k \in 1..Len(crawl) :
                  /\ crawl[k] = data[i]
                  /\ \A l \in 1..(k - 1) : crawl[l].date # data[i].date
\* two pages' records share a date and differ, and scrape_all_data has finished
C1_Witness ==
    /\ pc = "scraped"
    /\ \E k, l \in 1..Len(crawl) :
          k < l /\ crawl[k].date = crawl[l].date /\ crawl[k] # crawl[l]

\* 'YYYY-MM-DD' strings of equal length compare as their dates do
IsoLeq(a, b) ==
    \/ a = b
    \/ \E i \in 1..Len(a) :
          /\ \A j \in 1..(i - 1) : a[j] = b[j]
          /\ DigitVal(a[i]) < DigitVal(b[i])

\* C2: the rows save_to_csv writes are in non-decreasing date order, and they
\* are the records of self.data, none added and none dropped.
C2_ExportSortedSameRecords ==
    pc = "saved" =>
        /\ \A i \in 1..(Len(csv.rows) - 1) :
              IsoLeq(csv.rows[i].date, csv.rows[i + 1].date)
        /\ Len(csv.rows) = Len(data)
        /\ \A r \in {data[i] : i \in 1..Len(data)} :
              Cardinality({i \in 1..Len(data) : data[i] = r})
                = Cardinality({i \in 1..Len(csv.rows) : csv.rows[i] = r})
\* three records were exported, and they had arrived in another order
C2_Witness ==
    /\ pc = "saved"
    /\ csv.kind = "file"
    /\ Len(csv.rows) >= 3
    /\ csv.rows # data

\* the month names and abbreviations the claim C3 lists, with their months:
\* the keys of german_months but the fifth
ClaimedMonthKeys == {german_months[k][1] : k \in (1..Len(german_months)) \ {5}}
MonthOfKey(mon) ==
    CHOOSE m \in 1..12 :
        \E k \in 1..Len(german_months) :
            /\ german_months[k][1] = mon
            /\ LowerStr(german_months[k][2]) = FullMonthNames[m]
IsDayOf(day, m, y) ==
    /\ Len(day) \in {1, 2}
    /\ AllDigits(day)
    /\ DigitsToNat(day) >= 1
    /\ DigitsToNat(day) <= DaysInMonth(y, m)

\* C3: parse_date of "D. Month YYYY" is the ISO date when Month is one of the
\* listed names and the day exists in that month; it is None when the month
\* token is not in the mapping or the day is malformed.
C3_ParseDateCorrect ==
    (fn = "parse_date" /\ src.kind = "dmy") =>
        IF src.mon \in ClaimedMonthKeys
        THEN IF IsDayOf(src.day, MonthOfKey(src.mon), src.y)
             THEN res = Str(IsoText(src.y, MonthOfKey(src.mon), DigitsToNat(src.day)))
             ELSE res = None
        ELSE src.mon \notin MonthKeys => res = None

\* a price token of digits and separators, a digit first and last, with both
\* a comma and a dot
IsMixedPriceToken(s) ==
    /\ Contains(s, ",") /\ Contains(s, ".")
    /\ \A i \in 1..Len(s) : IsDigit(s[i]) \/ s[i] \in {",", "."}
    /\ IsDigit(s[1]) /\ IsDigit(s[Len(s)])
\* the token with its right-most separator as the decimal point and the
\* separators left of it removed
RightmostAsDecimal(s) ==
    [i \in 1..Len(s) |->
        IF s[i] \in {",", "."}
        THEN IF \E j \in (i + 1)..Len(s) : s[j] \in {",", "."} THEN "" ELSE "."
        ELSE s[i]]
NotEmptyChar(c) == c # ""

\* C4: clean_price of a token with both a comma and a dot reads the right-most
\* separator as the decimal point and drops the separators left of it
\* ("9,637.50" is 9637.50, "1.234,56" is 1234.56).
C4_RightmostSeparatorIsDecimal ==
    (fn = "clean_price" /\ IsMixedPriceToken(arg)) =>
        res = PyFloat(SelectSeq(RightmostAsDecimal(arg), NotEmptyChar))

PageA == [kind |-> "200", table |-> TRUE, trs |-> <<"header", "rowA">>]
PageB == [kind |-> "200", table |-> TRUE, trs |-> <<"header", "rowB">>]
\* the responses logged, without the k-th
InputsWithout(k) ==
    [i \in 1..(Len(inputs) - 1) |-> IF i < k THEN inputs[i].resp ELSE inputs[i + 1].resp]

\* C5: when page A and then page B are processed (the one other page of the
\* run holding no data row), the final collection is one record, dated
\* 2025-01-13, with cash settlement price 9600.00.
C5_EndToEndFirstSeenWins ==
    (/\ Scraped
     /\ \E k \in 1..Len(inputs) :
           /\ Len(inputs[k].resp.trs) <= 1
           /\ InputsWithout(k) = <<PageA, PageB>>)
    => /\ Len(data) = 1
       /\ data[1].date = <<"2", "0", "2", "5", "-", "0", "1", "-", "1", "3">>
       /\ data[1].lme_copper_cash_settlement = PyFloatVal(FALSE, 9600, <<>>)

\* parse_date of the first cell of each named row
RowDate == [r \in DOMAIN RowCells |-> parse_date(GetText(RowCells[r][1]))]
\* the data rows of a logged page that C6 says contribute a record
KeptRows(trs) ==
    {i \in 2..Len(trs) : Len(RowCells[trs[i]]) >= 4 /\ RowDate[trs[i]] # None}

\* C6: of the data rows of a page, those with at least four cells whose date
\* parses contribute a record each, and no other row does; a record has a
\* date, and a row with empty third and fourth cells gives a record without
\* three-month price and stock.
C6_RowKeptIffDateParses ==
    \A k \in 1..Len(inputs) :
        (inputs[k].resp.kind = "200" /\ inputs[k].resp.table) =>
            /\ Len(inputs[k].page) = Cardinality(KeptRows(inputs[k].resp.trs))
            /\ \A i \in 1..Len(inputs[k].page) : inputs[k].page[i].date # <<>>
            /\ inputs[k].resp.trs = <<"header", "jan13b">> =>
                  /\ Len(inputs[k].page) = 1
                  /\ inputs[k].page[1].lme_copper_cash_settlement.kind = "float"
                  /\ inputs[k].page[1].lme_copper_3_month = None
                  /\ inputs[k].page[1].lme_copper_stock = None

\* the last page fetched failed: the request raised, the status was an error,
\* the body held no table, or an exception ended the parsing
Failed ==
    \/ outcome.resp \in {"ConnectionError", "Timeout", "HTTPError"}
    \/ outcome.ended \in {"no_table", "error"}
C7_FailedPageReturnsNothing ==
    /\ Failed => lastPage = <<>>
    /\ fetched = SubSeq(AllPages, 1, Len(fetched))
    /\ Scraped => fetched = AllPages
C7_FailedPageLeavesData ==
    (fetched' # fetched /\ Failed') =>
        /\ crawl' = crawl
        /\ pc = "scrape_years" => data' = data
        /\ fetched' = Append(fetched, AllPages[Len(fetched) + 1])
        /\ pc' \in {"scrape_years", "scrape_main", "scraped"}

\* C7: a page whose fetch or parse fails returns an empty list and leaves
\* self.data as it was, and scrape_all_data goes on to request every
\* remaining page in order.
C7_FailedPageSkipped ==
    []C7_FailedPageReturnsNothing /\ [][C7_FailedPageLeavesData]_vars
\* the last page failed after earlier pages had contributed records, and
\* every page has been requested
C7_Witness ==
    /\ pc = "scraped"
    /\ Failed
    /\ crawl # <<>>
    /\ fetched = AllPages

\* C8: no call of parse_date, clean_price or clean_stock on a string lets an
\* exception escape.
C8_NoExceptionEscapes ==
    fn \in {"parse_date", "clean_price", "clean_stock"} => res.kind # "raised"

\* the argument is an ISO date: the one a first parse_date returned, or built
IsIsoCall == fn = "parse_date" /\ src.kind \in {"iso", "reparse"}

\* C9 as stated: parse_date of an ISO date string returns that string.
C9_Idempotent == IsIsoCall => res = Str(arg)
\* C9 as amended: parse_date of an ISO date string returns None.
C9_IsoDateIsNotParsed == IsIsoCall => res = None
\* the result of a first parse_date was parsed again
C9_Witness == fn = "parse_date" /\ src.kind = "reparse" /\ res = None

\* the empty string, whitespace only, or a dash with or without whitespace
IsBlankOrDash(s) == Strip(s) = <<>> \/ Strip(s) = <<"-">>

\* C10: clean_price and clean_stock return None, and no number, for a token
\* that is empty, whitespace only, or the placeholder dash.
C10_BlankOrDashIsAbsent ==
    (fn \in {"clean_price", "clean_stock"} /\ IsBlankOrDash(arg)) => res = None
\* clean_price was called on a token of two blanks
C10_Witness == fn = "clean_price" /\ arg = <<" ", " ">> /\ res = None


\* a token of digits and the separator sep only, with at least one of each
SingleSeparatorToken(s, sep) ==
    /\ Contains(s, sep)
    /\ \A i \in 1..Len(s) : IsDigit(s[i]) \/ s[i] = sep
    /\ \E i \in 1..Len(s) : IsDigit(s[i])
BeforeSep(s, sep) == SubSeq(s, 1, IndexOf(s, sep) - 1)
AfterSep(s, sep) == SubSeq(s, IndexOf(s, sep) + 1, Len(s))
\* the number whose decimal point is sep; with several decimal points the
\* token is no number and the result is absent
DecimalReading(s, sep) ==
    IF Count(s, sep) = 1
    THEN PyFloatVal(FALSE, DigitsToNat(BeforeSep(s, sep)),
                    StripTrailingZeros(AfterSep(s, sep)))
    ELSE None
\* the separators dropped, the digits read as one integer
ThousandsReading(s) == PyIntVal(DigitsToNat(SelectSeq(s, IsDigit)))
\* the decimal value cut to its integer part
TruncatedReading(s, sep) == PyIntVal(DigitsToNat(BeforeSep(s, sep)))

\* C11: on a token of digits with commas and no dot, clean_stock drops the
\* commas and returns the integer ("108,725" is 108725) while clean_price reads
\* the comma as the decimal point; on a token of digits with one dot and no
\* comma, clean_stock drops the dot when exactly three digits follow it and
\* otherwise truncates the decimal value, while clean_price reads the dot as
\* the decimal point.
C11_SingleSeparatorPolicies ==
    /\ (fn = "clean_stock" /\ SingleSeparatorToken(arg, ",")) =>
            res = ThousandsReading(arg)
    /\ (fn = "clean_price" /\ SingleSeparatorToken(arg, ",")) =>
            res = DecimalReading(arg, ",")
    /\ (fn = "clean_stock" /\ SingleSeparatorToken(arg, ".") /\ Count(arg, ".") = 1) =>
            res = IF Len(AfterSep(arg, ".")) = 3 THEN ThousandsReading(arg)
                  ELSE TruncatedReading(arg, ".")
    /\ (fn = "clean_price" /\ SingleSeparatorToken(arg, ".") /\ Count(arg, ".") = 1) =>
            res = DecimalReading(arg, ".")
\* clean_stock was called on "108,725" and returned 108725
C11_Witness ==
    /\ fn = "clean_stock"
    /\ arg = <<"1", "0", "8", ",", "7", "2", "5">>
    /\ res = PyIntVal(108725)

\* C14: clean_stock of a token with both a comma and a dot reads the right-most
\* separator as the decimal point, drops the separators left of it and returns
\* the value truncated to an integer ("1.234.567,00" is 1234567, "1,234.56" is
\* 1234).
C14_StockRightmostSeparatorIsDecimal ==
    (fn = "clean_stock" /\ IsMixedPriceToken(arg)) =>
        res = PyInt(PyFloat(SelectSeq(RightmostAsDecimal(arg), NotEmptyChar)))


\* C12: whatever the pages answer, main() completes without raising: it never
\* ends in the handler that logs the exception and raises it again.
C12_MainNeverRaises == pc # "raised"


\* the file is absent, cannot be read, or holds a table without a date column
\* or with a date cell that is no date
BadFile(f) ==
    \/ f.kind \in {"missing", "empty", "denied"}
    \/ f.kind = "csv" /\ "date" \notin f.columns
    \/ f.kind = "csv" /\ "date" \in f.columns
          /\ \E i \in 1..Len(f.rows) : ~IsDateCell(f.rows[i].date)

\* C13: when the data file is missing, unreadable or corrupt, load_data prints
\* a diagnostic and leaves self.df None, and every analysis method called
\* afterwards returns None and raises nothing.
C13_BadFileLeavesNoFrame ==
    (apc # "new" /\ BadFile(file)) =>
        /\ printed \in {"not found", "Error loading data"}
        /\ self_df = None
        /\ ret = None

=============================================================================
